---------------------------- MODULE Spec2Model ----------------------------
(***************************************************************************)
(* A model of src/plugin.py (OpenClaw wheel-strategy plugin): the IBWheel  *)
(* engine (session, price resolver, option-chain resolver, portfolio       *)
(* resolver, wheel recommendation) and the four tool functions calling it. *)
(*                                                                         *)
(* Money (prices, strikes, quotes, cash, premium) is in integer cents; the *)
(* mid price is in half cents, so that (bid+ask)/2 is exact; percentages   *)
(* are in hundredths of a percent.  A Python float or None is a record     *)
(* [k, v]: k = "num" carries the value v, k = "nan", "inf", "none" are NaN,*)
(* +infinity and None.  Binary floating-point error is not modelled.       *)
(*                                                                         *)
(* One behaviour is one call: a tool function (which builds a fresh        *)
(* IBWheel) or a direct call of IBWheel.wheel_recommendation with a cash   *)
(* argument.  Every provider call inside a try block is a step that may    *)
(* raise; ib.isConnected() and ib.disconnect(), which the code calls       *)
(* outside any try block, are queries/commands that do not raise.  The     *)
(* greeks, the implied volatility, the expiration string and the account   *)
(* summary values are carried through by the code unchanged and are left   *)
(* out of the records.                                                     *)
(***************************************************************************)
EXTENDS Integers, Sequences, FiniteSets, TLC

VARIABLES
    pc,            \* position in the code
    entry,         \* the function called: a tool function or the engine method
    cash,          \* wheel_recommendation's cash_available argument
    connected,     \* IBWheel._connected
    ibConnected,   \* the broker session: what ib.isConnected() answers
    openSub,       \* a reqMktData subscription not yet cancelled by cancelMktData
    mktType,       \* the last market data type requested (0: none yet)
    frame,         \* the caller of _ensure_connection: "gsp" or "gpf"
    i,             \* the poll loop's iteration count (local to get_stock_price)
    sample,        \* the usable sample held in the local `price` before the cancel
    info,          \* the secondary snapshot held in the local `info`
    price,         \* get_stock_price's return value
    secondary,     \* whether get_stock_price contacted the secondary provider
    primaryGave,   \* whether a poll of the primary provider gave a usable sample
    connects,      \* number of ib.connect calls
    everConnected, \* whether a connect succeeded during the call
    dropped,       \* whether the session was lost during the call
    ibPortfolio,   \* what ib.portfolio() answered
    portfolio,     \* get_portfolio's return value
    hasStock,      \* wheel_recommendation's has_stock
    maxContracts,  \* wheel_recommendation's max_contracts
    optType,       \* the option type requested from get_option_chain
    otm,           \* the OTM percentage requested from get_option_chain
    chainSpot,     \* the chain provider's own spot price
    chainRows,     \* the provider's table for the requested type
    targetStrike,  \* the resolver's target_strike after line 139 (0: not computed)
    chainCalls,    \* number of get_option_chain calls
    chain,         \* get_option_chain's return value
    result,        \* the engine method's return value
    raised         \* an exception propagated out of the engine method

vars == <<pc, entry, cash, connected, ibConnected, openSub, mktType, frame, i,
          sample, info, price, secondary, primaryGave, connects, everConnected,
          dropped, ibPortfolio, portfolio, hasStock, maxContracts, optType, otm,
          chainSpot, chainRows, targetStrike, chainCalls, chain, result, raised>>

sessionVars == <<connected, ibConnected, openSub, mktType, connects, everConnected,
                 dropped>>
priceVars == <<i, sample, info, price, secondary, primaryGave>>
portfolioVars == <<ibPortfolio, portfolio>>
chainVars == <<optType, otm, chainSpot, chainRows, targetStrike, chainCalls, chain>>
wheelVars == <<hasStock, maxContracts>>

-----------------------------------------------------------------------------
(* Python values *)

Num(n) == [k |-> "num", v |-> n]
NaN == [k |-> "nan", v |-> 0]
Inf == [k |-> "inf", v |-> 0]
None == [k |-> "none", v |-> 0]

IsNum(x) == x.k = "num"
IsNaN(x) == x.k = "nan"

\* bool(x): None and 0 are falsy; NaN, infinity and every other number are truthy
Truthy(x) == x.k \in {"nan", "inf"} \/ (x.k = "num" /\ x.v # 0)

\* a or b
PyOr(a, b) == IF Truthy(a) THEN a ELSE b

Abs(n) == IF n < 0 THEN -n ELSE n

\* floor(n / d) for d > 0
FloorDiv(n, d) == n \div d

\* int(n / d): truncation toward zero, d # 0
TruncDiv(n, d) ==
    IF (n >= 0) = (d > 0) THEN Abs(n) \div Abs(d) ELSE -(Abs(n) \div Abs(d))

\* round(n / d) for d > 0: Python rounds a half to the even neighbour
RoundHalfEven(n, d) ==
    LET q == n \div d
        r == n % d
    IN  IF 2 * r < d THEN q
        ELSE IF 2 * r > d THEN q + 1
        ELSE IF q % 2 = 0 THEN q ELSE q + 1


-----------------------------------------------------------------------------
(* Bounds and the provider responses drawn at each call *)

LivePolls == 10
FrozenPolls == 10
Multiplier == 100

MaxPositions == 1
MaxRows == 2
MaxWheelRows == 1

Symbol == "XYZ"

\* ticker.marketPrice() and ticker.close: floats, NaN while no data has arrived
MarketSamples == {NaN, Num(0), Num(-100), Num(10000), Inf}
CloseSamples == {NaN, Num(0), Num(9900)}

\* the secondary snapshot's currentPrice and regularMarketPrice
InfoCurrent == {None, Num(0), NaN, Num(4500)}
InfoRegular == {None, Num(5000)}

CashArgs == {None, Num(0), Num(1000000)}
OtmArgs == {10, 25}
OptionTypes == {"PUT", "CALL", "put", "STRADDLE"}

\* ib.portfolio(): entries with the contract's symbol, whether the contract
\* is a Stock, and the signed position
PositionEntries ==
    {[symbol |-> "XYZ", stock |-> TRUE, shares |-> 50],
     [symbol |-> "XYZ", stock |-> TRUE, shares |-> 0],
     [symbol |-> "XYZ", stock |-> TRUE, shares |-> -10],
     [symbol |-> "XYZ", stock |-> FALSE, shares |-> 2],
     [symbol |-> "ABC", stock |-> TRUE, shares |-> 50]}

SeqsUpTo(S, n) == UNION {[1..m -> S] : m \in 0..n}

Portfolios == SeqsUpTo(PositionEntries, MaxPositions)

\* option rows: the strike in cents; bid, ask and lastPrice in 1/100 cent,
\* None when the provider gives NaN or nothing
Row(strike, bid, ask, last) ==
    [strike |-> strike, bid |-> bid, ask |-> ask, last |-> last]

\* the tables drawn when the resolver alone is explored
Rows ==
    {Row(st, b, a, l) : st \in {4000, 4500, 5000},
                        b \in {None, Num(0), Num(10000)},
                        a \in {None, Num(0), Num(14000)},
                        l \in {None, Num(0), Num(20000)}}
Tables == SeqsUpTo(Rows, MaxRows)
TableSpots == {None, NaN, Num(5000)}
TableTypes == {"PUT", "CALL"}

\* the tables drawn inside a whole call
WheelRows ==
    {Row(4000, Num(0), Num(0), None),
     Row(4000, Num(12345), Num(12346), None),
     Row(9000, Num(18000), Num(22000), Num(20000)),
     Row(9000, Num(0), Num(0), Num(20000)),
     Row(0, Num(10000), Num(14000), None)}
WheelTables == SeqsUpTo(WheelRows, MaxWheelRows)
ChainCurrent == {None, NaN, Num(4500), Num(10000)}
ChainRegular == {None, Num(5000)}

EntryPoints == {"get_price", "get_options", "wheel_recommend", "portfolio_status"}
Entries == EntryPoints \cup {"wheel_recommendation"}

NoResult == [kind |-> "none"]
Error(tag) == [kind |-> "error", error |-> tag]
NoInfo == [cp |-> None, rmp |-> None]

-----------------------------------------------------------------------------
(* Session: IBWheel._ensure_connection and IBWheel.disconnect *)

\* get_portfolio's return: to portfolio_status or back into wheel_recommendation
GpfReturn(r) ==
    /\ portfolio' = r
    /\ IF entry = "portfolio_status"
       THEN pc' = "disconnect" /\ result' = r
       ELSE pc' = "wr_branch" /\ UNCHANGED result

\* _ensure_connection's return value b, taken by the caller's if
EcReturn(b) ==
    IF frame = "gsp"
    THEN /\ pc' = IF b THEN "gsp_qualify" ELSE "gsp_yf"
         /\ UNCHANGED <<portfolio, result>>
    ELSE IF b
         THEN pc' = "gpf_accounts" /\ UNCHANGED <<portfolio, result>>
         ELSE GpfReturn(Error("connect"))

\* a liveness test with its second condition negated
SessionAliveNegated == connected /\ ~ibConnected

\* line 50: reuse the session when the flag is set and the session is alive
SessionAlive == connected /\ ibConnected

EnsureCheck ==
    /\ pc = "ec_check"
    /\ IF SessionAlive
       THEN EcReturn(TRUE)
       ELSE pc' = "ec_connect" /\ UNCHANGED <<portfolio, result>>
    /\ UNCHANGED <<entry, cash, sessionVars, frame, priceVars, ibPortfolio,
                   wheelVars, chainVars, raised>>

\* lines 57-63 and 66-68: ib.connect connects, or raises and False is returned
EnsureConnect ==
    /\ pc = "ec_connect"
    /\ connects' = connects + 1
    /\ \/ /\ ibConnected' = TRUE
          /\ everConnected' = TRUE
          /\ pc' = "ec_assign"
          /\ UNCHANGED <<portfolio, result>>
       \/ /\ EcReturn(FALSE)
          /\ UNCHANGED <<ibConnected, everConnected>>
    /\ UNCHANGED <<entry, cash, connected, openSub, mktType, dropped, frame,
                   priceVars, ibPortfolio, wheelVars, chainVars, raised>>

\* lines 64-65
EnsureAssign ==
    /\ pc = "ec_assign"
    /\ connected' = ibConnected
    /\ EcReturn(ibConnected)
    /\ UNCHANGED <<entry, cash, ibConnected, openSub, mktType, connects,
                   everConnected, dropped, frame, priceVars, ibPortfolio, wheelVars,
                   chainVars, raised>>

\* the broker side or the network drops the session while a call is running
ConnectionLost ==
    /\ pc \notin {"idle", "done"}
    /\ ibConnected
    /\ ibConnected' = FALSE
    /\ dropped' = TRUE
    /\ UNCHANGED <<pc, entry, cash, connected, openSub, mktType, connects,
                   everConnected, frame, priceVars, portfolioVars, wheelVars,
                   chainVars, result, raised>>

\* a disconnect that clears the flag and leaves the session up
DisconnectFlagOnly ==
    /\ pc = "disconnect"
    /\ connected' = FALSE
    /\ pc' = "done"
    /\ UNCHANGED <<entry, cash, ibConnected, openSub, mktType, connects,
                   everConnected, dropped, frame, priceVars, portfolioVars, wheelVars,
                   chainVars, result, raised>>

\* lines 70-74, called by the tool functions after the engine method returned
Disconnect ==
    /\ pc = "disconnect"
    /\ IF connected
       THEN ibConnected' = FALSE /\ connected' = FALSE
       ELSE UNCHANGED <<ibConnected, connected>>
    /\ pc' = "done"
    /\ UNCHANGED <<entry, cash, openSub, mktType, connects, everConnected, dropped,
                   frame, priceVars, portfolioVars, wheelVars, chainVars,
                   result, raised>>

-----------------------------------------------------------------------------
(* PriceResolver: IBWheel.get_stock_price *)

\* lines 91 and 101: the sample is truthy and not NaN
Usable(s) == Truthy(s) /\ ~IsNaN(s)

\* lines 114-116: currentPrice or regularMarketPrice, returned when truthy
SecondaryPrice(cp, rmp) ==
    LET p == PyOr(cp, rmp) IN IF Truthy(p) THEN p ELSE None

\* get_stock_price's return: its locals die; get_price takes the value as its
\* result, wheel_recommendation goes on to line 362
GspReturn(p) ==
    /\ price' = p
    /\ i' = 0
    /\ sample' = None
    /\ info' = NoInfo
    /\ IF entry = "get_price"
       THEN pc' = "disconnect" /\ result' = [kind |-> "price", price |-> p]
       ELSE pc' = "wr_price" /\ UNCHANGED result

\* a primary call that either succeeds (to pc `next`) or raises into the
\* except clause of line 107, which falls through to the secondary provider
PrimaryCall(at, next) ==
    /\ pc = at
    /\ pc' \in {next, "gsp_yf"}

\* lines 82-83
Qualify ==
    /\ PrimaryCall("gsp_qualify", "gsp_type1")
    /\ UNCHANGED <<entry, cash, sessionVars, frame, priceVars, portfolioVars,
                   wheelVars, chainVars, result, raised>>

\* lines 86 and 97: reqMarketDataType(1), reqMarketDataType(2)
ReqMarketDataType ==
    /\ \/ PrimaryCall("gsp_type1", "gsp_req1")
       \/ PrimaryCall("gsp_type2", "gsp_req2")
    /\ mktType' = IF pc' = "gsp_yf" THEN mktType
                  ELSE IF pc = "gsp_type1" THEN 1 ELSE 2
    /\ UNCHANGED <<entry, cash, connected, ibConnected, openSub, connects,
                   everConnected, dropped, frame, priceVars, portfolioVars, wheelVars,
                   chainVars, result, raised>>

\* lines 87 and 98: reqMktData opens the contract's subscription
ReqMktData ==
    /\ \/ PrimaryCall("gsp_req1", "gsp_live")
       \/ PrimaryCall("gsp_req2", "gsp_frozen")
    /\ IF pc' = "gsp_yf"
       THEN UNCHANGED <<openSub, i>>
       ELSE openSub' = TRUE /\ i' = 0
    /\ UNCHANGED <<entry, cash, connected, ibConnected, mktType, connects,
                   everConnected, dropped, frame, sample, info, price, secondary,
                   primaryGave, portfolioVars, wheelVars, chainVars, result,
                   raised>>

\* a poll loop that keeps the usable sample and polls on to the end of its
\* budget
PollOn(at, samples, budget, found, exhausted) ==
    /\ pc = at
    /\ i < budget
    /\ \/ /\ pc' = "gsp_yf"
          /\ UNCHANGED <<i, sample, primaryGave>>
       \/ \E s \in samples :
            /\ i' = i + 1
            /\ IF Usable(s)
               THEN /\ pc' = IF i + 1 = budget THEN found ELSE at
                    /\ sample' = s
                    /\ primaryGave' = TRUE
               ELSE /\ pc' = IF i + 1 = budget
                             THEN (IF primaryGave THEN found ELSE exhausted)
                             ELSE at
                    /\ UNCHANGED <<sample, primaryGave>>
    /\ UNCHANGED <<entry, cash, sessionVars, frame, info, price, secondary,
                   portfolioVars, wheelVars, chainVars, result, raised>>

\* one iteration of a poll loop: ib.sleep, then the sample is read; a usable
\* sample goes to the cancel before the return, the last failed poll leaves
\* the loop
Poll(at, samples, budget, found, exhausted) ==
    /\ pc = at
    /\ i < budget
    /\ \/ /\ pc' = "gsp_yf"
          /\ UNCHANGED <<i, sample, primaryGave>>
       \/ \E s \in samples :
            /\ i' = i + 1
            /\ IF Usable(s)
               THEN pc' = found /\ sample' = s /\ primaryGave' = TRUE
               ELSE /\ pc' = IF i + 1 = budget THEN exhausted ELSE at
                    /\ UNCHANGED <<sample, primaryGave>>
    /\ UNCHANGED <<entry, cash, sessionVars, frame, info, price, secondary,
                   portfolioVars, wheelVars, chainVars, result, raised>>

\* lines 89-92
LivePoll == Poll("gsp_live", MarketSamples, LivePolls, "gsp_cancel_found", "gsp_type2")

\* lines 99-102
FrozenPoll == Poll("gsp_frozen", CloseSamples, FrozenPolls, "gsp_cancel_found", "gsp_cancel_end")

\* lines 93-94 and 103-104: cancelMktData, then the sample is returned; when
\* the cancel raises, the sample is dropped and the secondary is asked
CancelFound ==
    /\ pc = "gsp_cancel_found"
    /\ \/ /\ openSub' = FALSE
          /\ GspReturn(sample)
          /\ UNCHANGED secondary
       \/ /\ pc' = "gsp_yf"
          /\ UNCHANGED <<openSub, i, sample, info, price, secondary, result>>
    /\ UNCHANGED <<entry, cash, connected, ibConnected, mktType, connects,
                   everConnected, dropped, frame, primaryGave, portfolioVars, wheelVars,
                   chainVars, raised>>

\* line 106: both budgets are used up
CancelEnd ==
    /\ pc = "gsp_cancel_end"
    /\ pc' = "gsp_yf"
    /\ \/ openSub' = FALSE
       \/ UNCHANGED openSub
    /\ UNCHANGED <<entry, cash, connected, ibConnected, mktType, connects,
                   everConnected, dropped, frame, priceVars, portfolioVars, wheelVars,
                   chainVars, result, raised>>

\* lines 112-113: the secondary snapshot is fetched, or the fetch raises and
\* None is returned (lines 117-120)
FetchInfo ==
    /\ pc = "gsp_yf"
    /\ secondary' = TRUE
    /\ \/ \E cp \in InfoCurrent, rmp \in InfoRegular :
            /\ info' = [cp |-> cp, rmp |-> rmp]
            /\ pc' = "gsp_yf_price"
            /\ UNCHANGED <<i, sample, price, result>>
       \/ GspReturn(None)
    /\ UNCHANGED <<entry, cash, sessionVars, frame, primaryGave, portfolioVars,
                   wheelVars, chainVars, raised>>

\* lines 114-120
ReturnInfoPrice ==
    /\ pc = "gsp_yf_price"
    /\ GspReturn(SecondaryPrice(info.cp, info.rmp))
    /\ UNCHANGED <<entry, cash, sessionVars, frame, secondary, primaryGave,
                   portfolioVars, wheelVars, chainVars, raised>>

-----------------------------------------------------------------------------
(* OptionChainResolver: IBWheel._get_option_chain_yf and get_option_chain *)

\* str.upper() on the option types used
Upper(t) == IF t = "put" THEN "PUT" ELSE IF t = "call" THEN "CALL" ELSE t

\* lines 133 and 144
IsPut(t) == Upper(t) = "PUT"

\* a target strike cut to a whole number with int() instead of round()
TargetStrikeTruncated(spot, k, t) ==
    100 * ((spot * (IF IsPut(t) THEN 100 - k ELSE 100 + k)) \div 10000)

\* lines 133-139: spot * (1 -+ k/100) in dollars, rounded to a whole number of
\* dollars; the value is given in cents
TargetStrike(spot, k, t) ==
    100 * RoundHalfEven(spot * (IF IsPut(t) THEN 100 - k ELSE 100 + k), 10000)

\* line 139: round() raises on NaN (ValueError) and on infinity (OverflowError)
RoundRaises(spot) == spot.k \in {"nan", "inf"}

Distance(row, target) == Abs(row.strike - target)

\* lines 153-162: the rows are sorted by strike and the first row of the
\* argsort of the distances is taken.  Series.argsort sorts with numpy's
\* default quicksort, which does not keep the order of equal keys: when
\* several rows are at the smallest distance, any of them may come first.
Closest(rows, target) ==
    {rows[r] : r \in {x \in 1..Len(rows) :
                        \A y \in 1..Len(rows) :
                            Distance(rows[x], target) <= Distance(rows[y], target)}}

\* lines 165-166: float(x) if pd.notna(x) and x > 0 else 0
BidAsk(x) == IF IsNum(x) /\ x.v > 0 THEN x.v ELSE 0

\* line 167: float(x) if pd.notna(x) else 0
Last(x) == IF IsNum(x) THEN x.v ELSE 0

\* a ladder that prefers the last trade whenever there is one
Mid2LastFirst(bid, ask, last) ==
    IF last > 0 THEN 2 * last
    ELSE IF bid > 0 /\ ask > 0 THEN bid + ask
    ELSE IF bid > 0 THEN 2 * bid
    ELSE IF ask > 0 THEN 2 * ask
    ELSE 0

\* a ladder without the branches for a bid alone and an ask alone
Mid2BothSides(bid, ask, last) ==
    IF bid = 0 /\ ask = 0 /\ last > 0 THEN 2 * last
    ELSE IF bid > 0 /\ ask > 0 THEN bid + ask
    ELSE 0

\* lines 170-179, in half units: twice the mid price
Mid2(bid, ask, last) ==
    IF bid = 0 /\ ask = 0 /\ last > 0 THEN 2 * last
    ELSE IF bid > 0 /\ ask > 0 THEN bid + ask
    ELSE IF bid > 0 THEN 2 * bid
    ELSE IF ask > 0 THEN 2 * ask
    ELSE 0

\* line 201: mid * 100 dollars, in half cents (mid2 is in half 1/100 cents)
Premium(mid2) == (mid2 * Multiplier) \div 100

\* lines 188-202
Contract(spot, row) ==
    LET bid == BidAsk(row.bid)
        ask == BidAsk(row.ask)
        last == Last(row.last)
    IN  [kind |-> "chain", stock_price |-> spot, strike |-> row.strike,
         bid |-> bid, ask |-> ask, last |-> last,
         premium |-> Premium(Mid2(bid, ask, last))]

\* the local target_strike when the resolver returns: line 139 is reached
\* with a truthy spot price and round() sets it unless it raises
Target(spot, k, t) ==
    IF Truthy(spot) /\ ~RoundRaises(spot) THEN TargetStrike(spot.v, k, t) ELSE 0

\* lines 127-206 once the provider has answered: the values the resolver may
\* return for the provider's spot price and table
ChainOutcomes(spot, rows, k, t) ==
    IF ~Truthy(spot) THEN {Error("no_price")}
    ELSE IF RoundRaises(spot) THEN {Error("exception")}
    ELSE IF rows = <<>> THEN {Error("no_options")}
    ELSE {Contract(spot, row) : row \in Closest(rows, TargetStrike(spot.v, k, t))}

\* a get_option_chain that tries the broker session before the secondary
\* provider
GetOptionChainViaSession ==
    /\ pc \in {"chain", "wr_chain"}
    /\ chainCalls' = chainCalls + 1
    /\ connects' = IF SessionAlive THEN connects ELSE connects + 1
    /\ \/ \E cp \in ChainCurrent, rmp \in ChainRegular, rows \in WheelTables :
            /\ chainSpot' = PyOr(cp, rmp)
            /\ chainRows' = rows
            /\ targetStrike' = Target(PyOr(cp, rmp), otm, optType)
            /\ chain' \in ChainOutcomes(PyOr(cp, rmp), rows, otm, optType)
       \/ /\ chain' = Error("exception")
          /\ UNCHANGED <<chainSpot, chainRows, targetStrike>>
    /\ IF pc = "chain"
       THEN pc' = "disconnect" /\ result' = chain'
       ELSE pc' = "wr_build" /\ UNCHANGED result
    /\ UNCHANGED <<entry, cash, connected, ibConnected, openSub, mktType,
                   everConnected, dropped, frame, priceVars, portfolioVars,
                   wheelVars, optType, otm, raised>>

\* lines 208-219 with 125-206: the snapshot and the chain are fetched from the
\* secondary provider (either fetch may raise) and the contract is resolved;
\* get_options takes the value as its result
GetOptionChain ==
    /\ pc \in {"chain", "wr_chain"}
    /\ chainCalls' = chainCalls + 1
    /\ \/ \E cp \in ChainCurrent, rmp \in ChainRegular, rows \in WheelTables :
            /\ chainSpot' = PyOr(cp, rmp)
            /\ chainRows' = rows
            /\ targetStrike' = Target(PyOr(cp, rmp), otm, optType)
            /\ chain' \in ChainOutcomes(PyOr(cp, rmp), rows, otm, optType)
       \/ /\ chain' = Error("exception")
          /\ UNCHANGED <<chainSpot, chainRows, targetStrike>>
    /\ IF pc = "chain"
       THEN pc' = "disconnect" /\ result' = chain'
       ELSE pc' = "wr_build" /\ UNCHANGED result
    /\ UNCHANGED <<entry, cash, sessionVars, frame, priceVars, portfolioVars,
                   wheelVars, optType, otm, raised>>

\* the resolver on a provider answer given beforehand
ResolveChain ==
    /\ pc = "resolve"
    /\ chain' \in ChainOutcomes(chainSpot, chainRows, otm, optType)
    /\ targetStrike' = Target(chainSpot, otm, optType)
    /\ chainCalls' = chainCalls + 1
    /\ pc' = "resolved"
    /\ UNCHANGED <<entry, cash, sessionVars, frame, priceVars, portfolioVars,
                   wheelVars, optType, otm, chainSpot, chainRows, result, raised>>

-----------------------------------------------------------------------------
(* PortfolioResolver: IBWheel.get_portfolio *)

\* a positions list that takes every entry, whatever its contract is
AllPositions(entries) ==
    [n \in 1..Len(entries) |-> [symbol |-> entries[n].symbol, shares |-> entries[n].shares]]

\* lines 338-347: the Stock entries, in the provider's order
StockPositions(entries) ==
    LET IsStock(e) == e.stock
        kept == SelectSeq(entries, IsStock)
    IN  [n \in 1..Len(kept) |-> [symbol |-> kept[n].symbol, shares |-> kept[n].shares]]

\* line 324: managedAccounts()[0] raises IndexError on an empty list, or the
\* call itself raises
ManagedAccounts ==
    /\ pc = "gpf_accounts"
    /\ \/ pc' = "gpf_summary" /\ UNCHANGED <<portfolio, result>>
       \/ GpfReturn(Error("index"))
       \/ GpfReturn(Error("exception"))
    /\ UNCHANGED <<entry, cash, sessionVars, frame, priceVars, ibPortfolio,
                   wheelVars, chainVars, raised>>

\* lines 325-336: the account summary is read, or the call or a float() raises
AccountSummary ==
    /\ pc = "gpf_summary"
    /\ \/ pc' = "gpf_portfolio" /\ UNCHANGED <<portfolio, result>>
       \/ GpfReturn(Error("exception"))
    /\ UNCHANGED <<entry, cash, sessionVars, frame, priceVars, ibPortfolio,
                   wheelVars, chainVars, raised>>

\* lines 338-356
ReadPortfolio ==
    /\ pc = "gpf_portfolio"
    /\ \/ \E entries \in Portfolios :
            /\ ibPortfolio' = entries
            /\ GpfReturn([kind |-> "portfolio", positions |-> StockPositions(entries)])
       \/ /\ GpfReturn(Error("exception"))
          /\ UNCHANGED ibPortfolio
    /\ UNCHANGED <<entry, cash, sessionVars, frame, priceVars, wheelVars,
                   chainVars, raised>>

-----------------------------------------------------------------------------
(* WheelDecisionEngine: IBWheel.wheel_recommendation *)

\* wheel_recommendation's return: wheel_recommend goes on to disconnect
WrReturn(r) ==
    /\ result' = r
    /\ pc' = IF entry = "wheel_recommend" THEN "disconnect" ELSE "done"

\* a price check that is skipped when no cash amount is given
PriceCheckSkipped ==
    /\ pc = "wr_price"
    /\ IF Truthy(price) \/ cash = None
       THEN pc' = "ec_check" /\ frame' = "gpf" /\ UNCHANGED result
       ELSE WrReturn(Error("no_price_for_symbol")) /\ UNCHANGED frame
    /\ UNCHANGED <<entry, cash, sessionVars, priceVars, portfolioVars,
                   wheelVars, chainVars, raised>>

\* lines 361-366
PriceCheck ==
    /\ pc = "wr_price"
    /\ IF Truthy(price)
       THEN pc' = "ec_check" /\ frame' = "gpf" /\ UNCHANGED result
       ELSE WrReturn(Error("no_price_for_symbol")) /\ UNCHANGED frame
    /\ UNCHANGED <<entry, cash, sessionVars, priceVars, portfolioVars,
                   wheelVars, chainVars, raised>>

\* a held test that takes any non-zero position, short ones included
HasStockNonZero(pf, sym) ==
    /\ pf.kind = "portfolio"
    /\ \E n \in 1..Len(pf.positions) :
          pf.positions[n].symbol = sym /\ pf.positions[n].shares # 0

\* lines 367-372
HasStock(pf, sym) ==
    /\ pf.kind = "portfolio"
    /\ \E n \in 1..Len(pf.positions) :
          pf.positions[n].symbol = sym /\ pf.positions[n].shares > 0

\* line 378: int() raises on NaN (ValueError) and on infinity (OverflowError)
IntRaises(c, p) == IsNaN(c) \/ IsNaN(p) \/ c.k = "inf"

\* lines 377-380
MaxContracts(c, p) ==
    IF Truthy(c)
    THEN IF p.k = "inf" THEN 0 ELSE TruncDiv(c.v, p.v * Multiplier)
    ELSE 1

\* lines 367-380 and 383, 410: the branch is taken; in the put branch the
\* contract count is computed, and an exception of int() leaves the method
Branch ==
    /\ pc = "wr_branch"
    /\ hasStock' = HasStock(portfolio, Symbol)
    /\ IF ~hasStock' /\ Truthy(cash) /\ IntRaises(cash, price)
       THEN /\ raised' = TRUE
            /\ pc' = "done"
            /\ UNCHANGED <<maxContracts, optType, otm>>
       ELSE /\ maxContracts' = IF hasStock' THEN 0 ELSE MaxContracts(cash, price)
            /\ optType' = IF hasStock' THEN "CALL" ELSE "PUT"
            /\ otm' = 10
            /\ pc' = "wr_chain"
            /\ UNCHANGED raised
    /\ UNCHANGED <<entry, cash, sessionVars, frame, priceVars, portfolioVars,
                   chainSpot, chainRows, targetStrike, chainCalls, chain,
                   result>>

\* round(x, 2) of a premium held in half cents: cents, a half to the even cent
Round2(halfCents) == RoundHalfEven(halfCents, 2)

\* a put return taken on the strike, not on the collateral of 100 shares
PutReturnPctOnStrike(premium, strike) ==
    IF strike * Multiplier > 0
    THEN Num(RoundHalfEven(100 * 100 * premium, 2 * strike))
    ELSE Num(0)

\* lines 392-393: premium / (strike * 100) * 100, rounded to 2 places (line
\* 401), in hundredths of a percent
PutReturnPct(premium, strike) ==
    IF strike * Multiplier > 0 THEN Num(RoundHalfEven(100 * premium, 2 * strike))
    ELSE Num(0)

\* line 418: premium / stock_price * 100 if stock_price > 0 else 0, rounded
\* to 2 places (line 426); NaN > 0 is false and premium / infinity is 0
CallReturnPct(premium, p) ==
    IF IsNum(p) /\ p.v > 0 THEN Num(RoundHalfEven(100 * 100 * premium, 2 * p.v))
    ELSE Num(0)

\* lines 388-405
PutRecommendation(c, p, n) ==
    [kind |-> "rec", action |-> "SELL_PUT", stock_price |-> p,
     strike |-> c.strike, premium |-> Round2(c.premium),
     return_pct |-> PutReturnPct(c.premium, c.strike),
     max_contracts |-> n, max_premium |-> Round2(c.premium * n)]

\* lines 415-428
CallRecommendation(c, p) ==
    [kind |-> "rec", action |-> "SELL_CALL", stock_price |-> p,
     strike |-> c.strike, premium |-> Round2(c.premium),
     return_pct |-> CallReturnPct(c.premium, p)]

\* a chain error replaced by the engine's own error value
RecommendationOwnError(c, p, held, n) ==
    IF c.kind = "error" THEN Error("no_chain")
    ELSE IF held THEN CallRecommendation(c, p)
    ELSE PutRecommendation(c, p, n)

\* lines 385-405 and 412-428
Recommendation(c, p, held, n) ==
    IF c.kind = "error" THEN c
    ELSE IF held THEN CallRecommendation(c, p)
    ELSE PutRecommendation(c, p, n)

Build ==
    /\ pc = "wr_build"
    /\ WrReturn(Recommendation(chain, price, hasStock, maxContracts))
    /\ UNCHANGED <<entry, cash, sessionVars, frame, priceVars, portfolioVars,
                   wheelVars, chainVars, raised>>

-----------------------------------------------------------------------------
(* The calls *)

\* get_price, get_options, wheel_recommend and portfolio_status build an
\* IBWheel and call its method; wheel_recommendation is called with a cash
\* argument
Invoke ==
    /\ pc = "idle"
    /\ \E e \in Entries :
         /\ entry' = e
         /\ cash' \in IF e = "wheel_recommendation" THEN CashArgs ELSE {None}
         /\ optType' \in IF e = "get_options" THEN OptionTypes ELSE {"PUT"}
         /\ otm' \in IF e = "get_options" THEN OtmArgs ELSE {10}
         /\ pc' = IF e = "get_options" THEN "chain" ELSE "ec_check"
         /\ frame' = IF e = "portfolio_status" THEN "gpf" ELSE "gsp"
    /\ UNCHANGED <<sessionVars, priceVars, portfolioVars, wheelVars,
                   chainSpot, chainRows, targetStrike, chainCalls, chain,
                   result, raised>>

Fresh ==
    /\ entry = "none"
    /\ cash = None
    /\ connected = FALSE
    /\ ibConnected = FALSE
    /\ openSub = FALSE
    /\ mktType = 0
    /\ frame = "gsp"
    /\ i = 0
    /\ sample = None
    /\ info = NoInfo
    /\ price = None
    /\ secondary = FALSE
    /\ primaryGave = FALSE
    /\ connects = 0
    /\ everConnected = FALSE
    /\ dropped = FALSE
    /\ ibPortfolio = <<>>
    /\ portfolio = NoResult
    /\ hasStock = FALSE
    /\ maxContracts = 0
    /\ targetStrike = 0
    /\ chainCalls = 0
    /\ chain = NoResult
    /\ result = NoResult
    /\ raised = FALSE

Init ==
    /\ Fresh
    /\ pc = "idle"
    /\ optType = "PUT"
    /\ otm = 10
    /\ chainSpot = None
    /\ chainRows = <<>>

Next ==
    \/ Invoke
    \/ EnsureCheck
    \/ EnsureConnect
    \/ EnsureAssign
    \/ ConnectionLost
    \/ Qualify
    \/ ReqMarketDataType
    \/ ReqMktData
    \/ LivePoll
    \/ FrozenPoll
    \/ CancelFound
    \/ CancelEnd
    \/ FetchInfo
    \/ ReturnInfoPrice
    \/ PriceCheck
    \/ ManagedAccounts
    \/ AccountSummary
    \/ ReadPortfolio
    \/ Branch
    \/ GetOptionChain
    \/ Build
    \/ Disconnect

Spec == Init /\ [][Next]_vars

\* get_price alone: the price resolver with the session it uses, where every
\* statement that can execute eventually does (each provider call returns)
InvokeGetPrice == Invoke /\ entry' = "get_price"

NextPrice ==
    \/ InvokeGetPrice
    \/ EnsureCheck
    \/ EnsureConnect
    \/ EnsureAssign
    \/ ConnectionLost
    \/ Qualify
    \/ ReqMarketDataType
    \/ ReqMktData
    \/ LivePoll
    \/ FrozenPoll
    \/ CancelFound
    \/ CancelEnd
    \/ FetchInfo
    \/ ReturnInfoPrice
    \/ Disconnect

SpecPrice == Init /\ [][NextPrice]_vars /\ WF_vars(NextPrice)

\* the option-chain resolver alone, on every provider answer of the bounds
InitChain ==
    /\ Fresh
    /\ pc = "resolve"
    /\ optType \in TableTypes
    /\ otm = 10
    /\ chainSpot \in TableSpots
    /\ chainRows \in Tables

NextChain == ResolveChain

SpecChain == InitChain /\ [][NextChain]_vars

-----------------------------------------------------------------------------
(* Properties *)

\* get_stock_price is running (with the _ensure_connection it calls)
InPrice ==
    /\ frame = "gsp"
    /\ pc \in {"ec_check", "ec_connect", "ec_assign", "gsp_qualify", "gsp_type1",
               "gsp_req1", "gsp_live", "gsp_type2", "gsp_req2", "gsp_frozen",
               "gsp_cancel_found", "gsp_cancel_end", "gsp_yf", "gsp_yf_price"}

\* get_stock_price was called and has returned
PriceReturned ==
    /\ entry \in {"get_price", "wheel_recommend", "wheel_recommendation"}
    /\ ~InPrice

\* wheel_recommendation was called and has ended
WheelEnded ==
    /\ entry \in {"wheel_recommend", "wheel_recommendation"}
    /\ pc \in {"disconnect", "done"}

\* C1: get_stock_price returns None or a price that is finite and greater
\* than 0: never NaN, zero, a negative value or infinity.
C1_PriceFinitePositive ==
    PriceReturned => price = None \/ (IsNum(price) /\ price.v > 0)

\* C2: the secondary provider is contacted if and only if the primary gave
\* no usable sample on any poll, and once its snapshot is fetched the value
\* returned is currentPrice or, if that is absent, regularMarketPrice.
C2_SecondaryIffNoPrimaryPrice ==
    [][/\ (InPrice /\ ~InPrice') => (secondary' <=> ~primaryGave')
       /\ (pc = "gsp_yf_price" /\ pc' # "gsp_yf_price") =>
            price' = IF Truthy(info.cp) THEN info.cp
                     ELSE IF Truthy(info.rmp) THEN info.rmp ELSE None]_vars

\* C3: when get_stock_price has returned, no subscription opened by
\* reqMktData is left without its cancelMktData.
C3_NoSubscriptionLeftOpen == PriceReturned => ~openSub

\* C4: when a tool function (get_price, get_options, wheel_recommend,
\* portfolio_status) has finished, the broker session is not connected.
C4_SessionReleased == (pc = "done" /\ entry \in EntryPoints) => ~ibConnected

\* a tool function finished after a connect had succeeded and a
\* recommendation was made on the connected session's portfolio
C4_Witness ==
    /\ pc = "done"
    /\ entry = "wheel_recommend"
    /\ everConnected
    /\ portfolio.kind = "portfolio"
    /\ result.kind = "rec"

\* C5: no exception propagates out of an engine entry point, whatever the
\* providers answer and whatever the cash argument is.
C5_NoExceptionEscapes == ~raised

\* the provider's portfolio was obtained and holds a long stock position in
\* the requested symbol
HeldLong ==
    /\ portfolio.kind = "portfolio"
    /\ \E n \in 1..Len(ibPortfolio) :
          /\ ibPortfolio[n].stock
          /\ ibPortfolio[n].symbol = Symbol
          /\ ibPortfolio[n].shares > 0

\* C6: a recommendation's action is SELL_CALL exactly when the portfolio was
\* obtained and holds the symbol with a share count > 0; otherwise (count 0,
\* short, not held, portfolio unavailable) it is SELL_PUT.
C6_ActionBySharesSign ==
    (WheelEnded /\ result.kind = "rec") =>
        result.action = IF HeldLong THEN "SELL_CALL" ELSE "SELL_PUT"

\* a covered call was recommended on a long position
C6_Witness ==
    /\ WheelEnded
    /\ result.kind = "rec"
    /\ result.action = "SELL_CALL"
    /\ HeldLong

\* C7: in a SELL_PUT recommendation max_contracts is floor(cash / (spot x 100))
\* whenever a cash value >= 0 is given, 0 included, and 1 only when the cash
\* argument is omitted.
C7_MaxContractsFloor ==
    (WheelEnded /\ result.kind = "rec" /\ result.action = "SELL_PUT"
        /\ IsNum(price) /\ price.v > 0) =>
        result.max_contracts =
            IF cash = None THEN 1 ELSE FloorDiv(cash.v, price.v * 100)

\* the rows of the table at the smallest distance from the target strike
Nearest(rows, target) ==
    {r \in 1..Len(rows) :
        \A q \in 1..Len(rows) :
            Abs(rows[r].strike - target) <= Abs(rows[q].strike - target)}

\* C8: the resolved contract's strike is at the smallest distance from the
\* target strike, and of two equidistant strikes the lower one is selected.
C8_NearestStrikeLowerOnTie ==
    (pc = "resolved" /\ chain.kind = "chain") =>
        LET near == Nearest(chainRows, TargetStrike(chainSpot.v, otm, optType))
        IN  /\ \E r \in near : chainRows[r].strike = chain.strike
            /\ \A r \in near : chain.strike <= chainRows[r].strike

\* the claim's ladder on a row's quotes (missing as 0), in half units
Ladder(row) ==
    LET b == IF IsNum(row.bid) THEN row.bid.v ELSE 0
        a == IF IsNum(row.ask) THEN row.ask.v ELSE 0
        l == IF IsNum(row.last) THEN row.last.v ELSE 0
    IN  CASE b > 0 /\ a > 0 -> b + a
          [] b > 0 /\ ~(a > 0) -> 2 * b
          [] a > 0 /\ ~(b > 0) -> 2 * a
          [] ~(b > 0) /\ ~(a > 0) /\ l > 0 -> 2 * l
          [] OTHER -> 0

\* the provider answered with a usable spot price and a non-empty table
Resolvable == Truthy(chainSpot) /\ ~RoundRaises(chainSpot) /\ chainRows # <<>>

\* C9: the mid price of the resolved contract is the ladder's value on the
\* selected row's bid, ask and last, the premium is mid x 100, and a contract
\* (not an error) is returned also when the mid price is 0.
C9_PricingLadder ==
    pc = "resolved" =>
        /\ Resolvable => chain.kind = "chain"
        /\ chain.kind = "chain" =>
             \E r \in 1..Len(chainRows) :
                /\ chainRows[r].strike = chain.strike
                /\ chain.bid = (IF IsNum(chainRows[r].bid) THEN chainRows[r].bid.v ELSE 0)
                /\ chain.ask = (IF IsNum(chainRows[r].ask) THEN chainRows[r].ask.v ELSE 0)
                /\ chain.last = (IF IsNum(chainRows[r].last) THEN chainRows[r].last.v ELSE 0)
                /\ chain.premium = Ladder(chainRows[r])

\* a contract priced from the last trade, its bid and ask missing or 0
C9_Witness ==
    /\ pc = "resolved"
    /\ chain.kind = "chain"
    /\ chain.bid = 0
    /\ chain.ask = 0
    /\ chain.last > 0
    /\ chain.premium = 2 * chain.last

\* C10: with a price resolved and the portfolio unavailable,
\* wheel_recommendation does not fail: it requests a PUT chain once and
\* returns a SELL_PUT recommendation or the chain's error.
C10_DegradesToPut ==
    (pc = "done" /\ entry \in {"wheel_recommend", "wheel_recommendation"}
        /\ Truthy(price) /\ portfolio.kind = "error") =>
        /\ ~raised
        /\ chainCalls = 1
        /\ optType = "PUT"
        /\ \/ result.kind = "error" /\ result = chain
           \/ result.kind = "rec" /\ result.action = "SELL_PUT"

\* the recommendation wheel_recommendation builds from this call's price, cash
\* and chain when the portfolio is obtained and does not hold the symbol
NotHeldRecommendation ==
    Recommendation(chain, price,
                   HasStock([kind |-> "portfolio", positions |-> <<>>], Symbol),
                   MaxContracts(cash, price))

\* C11: a recommendation made with the portfolio unavailable tells the caller
\* so: it differs from the recommendation made, on the same price and chain,
\* with the portfolio obtained and the symbol not held.
C11_DegradationTold ==
    (WheelEnded /\ result.kind = "rec" /\ portfolio.kind = "error") =>
        result # NotHeldRecommendation

\* C12: when get_stock_price returns no price, wheel_recommendation returns
\* its error at once: neither the portfolio nor the option chain is queried
\* after the failed price resolution.
C12_NoPriceIsTerminal ==
    (entry \in {"wheel_recommend", "wheel_recommendation"} /\ ~InPrice
        /\ price = None) =>
        /\ pc \in {"wr_price", "disconnect", "done"}
        /\ pc # "wr_price" => result = Error("no_price_for_symbol")
        /\ frame = "gsp"
        /\ portfolio = NoResult
        /\ chainCalls = 0
        /\ chain = NoResult
        /\ ~raised

\* the error was returned for a lost price after a session had been set up
C12_Witness ==
    /\ WheelEnded
    /\ price = None
    /\ everConnected
    /\ result = Error("no_price_for_symbol")

\* C13: in both branches an error of the option-chain resolver is returned
\* as the recommendation unchanged, and the chain is resolved exactly once
\* per call that reaches it: no retry, none with the other option type.
C13_ChainErrorVerbatim ==
    /\ chainCalls <= 1
    /\ (chainCalls = 1 /\ entry \in {"wheel_recommend", "wheel_recommendation"}) =>
            optType = IF hasStock THEN "CALL" ELSE "PUT"
    /\ (WheelEnded /\ chain # NoResult) => chainCalls = 1
    /\ (WheelEnded /\ chain.kind = "error") => result = chain

\* a covered-call request whose chain failed and whose error was returned
C13_Witness ==
    /\ WheelEnded
    /\ hasStock
    /\ chain.kind = "error"
    /\ chainCalls = 1
    /\ result = chain

\* C14: get_stock_price ends, after at most 10 live and at most 10 frozen
\* polls: a loop's count never passes 10, the frozen market data type is
\* requested only when 10 live polls gave no usable sample, no poll is made
\* after a usable sample, and (every provider call returning) the call
\* returns.
C14_BoundedPolling ==
    /\ [](i \in 0..10)
    /\ [][/\ ((mktType' = 2 /\ mktType # 2) =>
                (pc = "gsp_type2" /\ i = 10 /\ ~primaryGave))
           /\ ((pc' \in {"gsp_type2", "gsp_req2", "gsp_frozen"}) => ~primaryGave')
           /\ ((i' = i + 1) =>
                (~primaryGave /\ pc \in {"gsp_live", "gsp_frozen"}))]_vars
    /\ (InPrice ~> ~InPrice)

\* the last frozen poll has failed after ten failed live polls
C14_Witness ==
    /\ pc = "gsp_cancel_end"
    /\ mktType = 2
    /\ i = 10
    /\ ~primaryGave

\* C15: get_option_chain works on the secondary provider alone: the step
\* that resolves a chain, with a contract or with an error, makes no call
\* to the primary provider, attempts no connection and leaves the session
\* state (the connected flag, the subscriptions) as it was; a get_options
\* call never touches the session.
C15_ChainLeavesSession ==
    /\ [](entry = "get_options" =>
            (connects = 0 /\ ~connected /\ ~ibConnected /\ ~openSub /\ mktType = 0))
    /\ [][(chainCalls' # chainCalls) =>
            (/\ sessionVars' = sessionVars
             /\ ibPortfolio' = ibPortfolio
             /\ frame' = frame)]_vars

\* a chain was resolved on a session that is up and has a subscription open
C15_Witness ==
    /\ chainCalls = 1
    /\ connected
    /\ ibConnected
    /\ openSub
    /\ chain.kind = "chain"

\* get_portfolio is running (with the _ensure_connection it calls)
InPortfolio ==
    /\ frame = "gpf"
    /\ pc \in {"ec_check", "ec_connect", "ec_assign", "gpf_accounts",
               "gpf_summary", "gpf_portfolio"}

\* the stock entries of a provider portfolio, in its order
RECURSIVE StockEntries(_)
StockEntries(entries) ==
    IF entries = <<>> THEN <<>>
    ELSE (IF Head(entries).stock
          THEN <<[symbol |-> Head(entries).symbol, shares |-> Head(entries).shares]>>
          ELSE <<>>) \o StockEntries(Tail(entries))

\* C16: get_portfolio returns an error value whenever it fails (no session,
\* no managed account, a provider call raising) and never contacts the
\* secondary provider; when it succeeds its positions are exactly the stock
\* entries of the provider's portfolio, the derivative entries left out.
C16_PortfolioErrorsAndStocks ==
    /\ [](portfolio.kind = "portfolio" =>
            portfolio.positions = StockEntries(ibPortfolio))
    /\ [](entry = "portfolio_status" => (~secondary /\ chainCalls = 0))
    /\ [][InPortfolio =>
            (/\ secondary' = secondary
             /\ chainCalls' = chainCalls
             /\ ~InPortfolio' =>
                  (\/ portfolio'.kind = "error"
                   \/ (pc = "gpf_portfolio" /\ portfolio'.kind = "portfolio")))]_vars

\* a portfolio was obtained whose only entry, a derivative, was left out
C16_Witness ==
    /\ portfolio.kind = "portfolio"
    /\ Len(ibPortfolio) = 1
    /\ ~ibPortfolio[1].stock
    /\ portfolio.positions = <<>>

\* C17: _ensure_connection calls connect only when there is no live session;
\* once a connect has succeeded and the session has stayed up it connects
\* no more, so a wheel_recommendation whose first connect succeeds and whose
\* session stays up connects exactly once over the price and portfolio steps
\* (the price step reached the provider's market data, so its connect, the
\* first, succeeded).
C17_ConnectOnlyWithoutSession ==
    /\ [][(connects' # connects) =>
            (/\ pc = "ec_connect"
             /\ connects' = connects + 1
             /\ ~(connected /\ ibConnected)
             /\ (everConnected => dropped))]_vars
    /\ []((mktType # 0 /\ ~dropped) => connects = 1)

\* the price and the portfolio were read over one connection that stayed up
C17_Witness ==
    /\ WheelEnded
    /\ everConnected
    /\ ~dropped
    /\ connects = 1
    /\ IsNum(price)
    /\ ~secondary
    /\ portfolio.kind = "portfolio"

C19_ReturnPct ==
    (WheelEnded /\ result.kind = "rec") =>
        /\ chain.kind = "chain"
        /\ Abs(2 * result.premium - chain.premium) <= 1
        /\ IsNum(result.return_pct)
        /\ result.action = "SELL_PUT" =>
              IF chain.strike = 0 THEN result.return_pct.v = 0
              ELSE Abs(result.return_pct.v * 2 * chain.strike - 100 * chain.premium)
                       <= chain.strike
        /\ (result.action = "SELL_CALL" /\ IsNum(price)) =>
              IF price.v <= 0 THEN result.return_pct.v = 0
              ELSE Abs(result.return_pct.v * 2 * price.v - 10000 * chain.premium)
                       <= price.v

\* a put with a premium was recommended on a strike of 0
C19_Witness ==
    /\ WheelEnded
    /\ result.kind = "rec"
    /\ result.action = "SELL_PUT"
    /\ result.strike = 0
    /\ result.premium > 0
    /\ result.return_pct = Num(0)

\* how many of bid > 0, ask > 0, last > 0 hold for the resolved contract
QuotesAbove0 ==
    (IF chain.bid > 0 THEN 1 ELSE 0) + (IF chain.ask > 0 THEN 1 ELSE 0)
        + (IF chain.last > 0 THEN 1 ELSE 0)

\* C20: the premium of a resolved contract is non-zero only when exactly
\* one of bid > 0, ask > 0, last > 0 holds; in every other case it is 0.
C20_PremiumOnlyWithOneQuote ==
    (pc = "resolved" /\ chain.kind = "chain") =>
        /\ chain.premium # 0 => QuotesAbove0 = 1
        /\ QuotesAbove0 # 1 => chain.premium = 0

\* C20 as amended: the premium of a resolved contract is non-zero exactly
\* when at least one of bid > 0, ask > 0, last > 0 holds; when none holds
\* it is 0.
C20_PremiumWithSomeQuote ==
    (pc = "resolved" /\ chain.kind = "chain") =>
        /\ chain.premium # 0 <=> QuotesAbove0 >= 1
        /\ QuotesAbove0 = 0 => chain.premium = 0

\* a contract with a bid and an ask above 0, priced at their mid
C20_Witness ==
    /\ pc = "resolved"
    /\ chain.kind = "chain"
    /\ chain.bid > 0
    /\ chain.ask > 0
    /\ chain.premium = chain.bid + chain.ask

\* C21: a SELL_PUT recommendation made with a cash amount given is
\* cash-secured: max_contracts x (strike x 100), the collateral of the chosen
\* contract, does not exceed the cash, whatever the chain holds and whatever
\* the resolver's and the chain provider's spot prices are.
C21_CashSecured ==
    (WheelEnded /\ result.kind = "rec" /\ result.action = "SELL_PUT"
        /\ IsNum(cash)) =>
        result.max_contracts * (result.strike * 100) <= cash.v

=============================================================================
